---- MODULE Spec2Model ----
(***************************************************************************)
(* Model of the authentication/session subsystem of the timesheet backend  *)
(* (src/auth.py, src/dependencies.py): IP-bound temporary tokens, access   *)
(* and refresh tokens, the in-memory registry of active tokens, the expiry *)
(* sweep and the request authentication built on them.                     *)
(*                                                                         *)
(* Time is counted in minutes; the server clock is UTC, so the local-time  *)
(* conversions of exp (timestamp / fromtimestamp) and jose's UTC reading    *)
(* agree.  A token string is modelled by what decides its identity: HS256   *)
(* signing is deterministic, so a token is the pair of its payload and the  *)
(* secret it was signed with.  login is two steps, split at the await of    *)
(* the user lookup; every other handler, and one iteration of the sweep     *)
(* loop, runs without awaiting and is one step.  The sweep task may wake at *)
(* any clock reading.                                                       *)
(***************************************************************************)
EXTENDS Integers, FiniteSets, Sequences, Bags, TLC

\* ---------------------------------------------------------------- bounds
MaxTemp == 1
MaxLogins == 2

\* ------------------------------------------------- configuration (auth.py)
ACCESS_TOKEN_EXPIRE_MINUTES == 15
REFRESH_TOKEN_EXPIRE_DAYS == 7
TEMP_TOKEN_EXPIRE_MINUTES == 5
SECRET_KEY == "your-strong-secret-key"
REFRESH_SECRET_KEY == "your-refresh-secret-key"

temp_token_expiry == TEMP_TOKEN_EXPIRE_MINUTES
refresh_token_expiry == REFRESH_TOKEN_EXPIRE_DAYS * 24 * 60

\* ------------------------------------------------------ inputs of requests
ClientIps == {"10.0.0.1", "10.0.0.2"}
\* submitted (username, password) pairs: two valid users, a wrong password,
\* an unknown username
Credentials == {<<"alice", "pw-alice">>, <<"bob", "pw-bob">>,
                <<"alice", "pw-bob">>, <<"mallory", "pw-alice">>}
\* clock readings at which operations run: process start, the access lifetime
\* exactly elapsed, one minute past it, one minute past the refresh lifetime
Instants == {0,
             ACCESS_TOKEN_EXPIRE_MINUTES, ACCESS_TOKEN_EXPIRE_MINUTES + 1,
             REFRESH_TOKEN_EXPIRE_DAYS * 24 * 60 + 1}
TempIds == 1..MaxTemp
\* a temp token string that was never issued
UnknownTemp == MaxTemp + 1

\* --------------------------------------------------------- credential store
get_password_hash(password) == <<"bcrypt", password>>

verify_password(plain_password, hashed_password) ==
    hashed_password = get_password_hash(plain_password)

\* the employee table the user lookup reads
Employee ==
    [alice |-> [username |-> "alice", role |-> "admin", empid |-> 1,
                password_hash |-> get_password_hash("pw-alice")],
     bob   |-> [username |-> "bob", role |-> "employee", empid |-> 2,
                password_hash |-> get_password_hash("pw-bob")]]

TokenData(username, role, empid) ==
    [username |-> username, role |-> role, empid |-> empid]

NoData == TokenData("", "", 0)

\* ------------------------------------------------------ outcomes of a call
Ok(data) == [exc |-> "none", status |-> 200, detail |-> <<>>, data |-> data]

HTTPException(status, detail) ==
    [exc |-> "HTTPException", status |-> status, detail |-> detail, data |-> NoData]

\* a JWTError that reaches the caller of the service unconverted
JWTError(msg) == [exc |-> "JWTError", status |-> 500, detail |-> <<msg>>, data |-> NoData]

\* ------------------------------------------------------------- token codec
NoToken == [payload |-> [type |-> "none"], key |-> "none"]

jwt_encode(payload, key) == [payload |-> payload, key |-> key]

\* jose's decode: signature first, then the exp claim against the clock
jwt_decode(token, key, clock) ==
    IF token.key # key
    THEN [ok |-> FALSE, msg |-> "Signature verification failed.", payload |-> token.payload]
    ELSE IF "exp" \in DOMAIN token.payload /\ token.payload.exp < clock
    THEN [ok |-> FALSE, msg |-> "Signature has expired.", payload |-> token.payload]
    ELSE [ok |-> TRUE, msg |-> "", payload |-> token.payload]

\* token_data.model_dump() updated with exp, ip and type
AccessPayload(token_data, client_ip, clock) ==
    [username |-> token_data.username, role |-> token_data.role,
     empid |-> token_data.empid,
     exp |-> clock + ACCESS_TOKEN_EXPIRE_MINUTES, ip |-> client_ip, type |-> "access"]

\* exp is set as a datetime; jwt.encode replaces it in the payload by whole
\* epoch time, which is also what the registry entry then records
RefreshPayload(token_data, client_ip, clock) ==
    [username |-> token_data.username, role |-> token_data.role,
     empid |-> token_data.empid,
     exp |-> clock + refresh_token_expiry, ip |-> client_ip, type |-> "refresh"]

AccessToken(token_data, client_ip, clock) ==
    jwt_encode(AccessPayload(token_data, client_ip, clock), SECRET_KEY)

RefreshToken(token_data, client_ip, clock) ==
    jwt_encode(RefreshPayload(token_data, client_ip, clock), REFRESH_SECRET_KEY)

\* the registry entry written beside a minted token
Entry(token, clock) ==
    [empid |-> token.payload.empid, ip |-> token.payload.ip,
     exp |-> token.payload.exp, created_at |-> clock]

\* mutant: the minted token is returned without being stored
Register_NotStored(reg, token, clock) == reg

\* active_tokens[token] = {...}
Register(reg, token, clock) ==
    [t \in DOMAIN reg \cup {token} |-> IF t = token THEN Entry(token, clock) ELSE reg[t]]

\* mutant: the del statement is missing
Remove_Nothing(store, keys) == store

\* del store[k] for every k in keys
Remove(store, keys) == [k \in DOMAIN store \ keys |-> store[k]]

\* -------------------------------------------------------------- validation
\* mutant: the ip claim is compared before the expiry
_validate_token_payload_IpFirst(payload, client_ip, token_type, clock) ==
    IF payload.type # token_type THEN "Invalid token type"
    ELSE IF payload.ip # client_ip THEN "IP address changed"
    ELSE IF clock > payload.exp THEN "Token expired"
    ELSE IF ~({"sub", "role", "empid"} \subseteq DOMAIN payload)
    THEN "Missing required claims"
    ELSE ""

\* mutant: the ip claim is not compared with the caller's address
_validate_token_payload_NoIp(payload, client_ip, token_type, clock) ==
    IF payload.type # token_type THEN "Invalid token type"
    ELSE IF clock > payload.exp THEN "Token expired"
    ELSE IF ~({"sub", "role", "empid"} \subseteq DOMAIN payload)
    THEN "Missing required claims"
    ELSE ""

\* mutant: the payload checks are never made
_validate_token_payload_Unchecked(payload, client_ip, token_type, clock) == ""

\* _validate_token_payload: "" when the payload passes, else the JWTError text
_validate_token_payload(payload, client_ip, token_type, clock) ==
    IF payload.type # token_type THEN "Invalid token type"
    ELSE IF clock > payload.exp THEN "Token expired"
    ELSE IF payload.ip # client_ip THEN "IP address changed"
    ELSE IF ~({"sub", "role", "empid"} \subseteq DOMAIN payload)
    THEN "Missing required claims"
    ELSE ""

\* TokenData(**{k: v for k, v in payload.items() if k in TokenData.__annotations__})
PayloadData(payload) == TokenData(payload.username, payload.role, payload.empid)

\* mutant: every registered, unexpired token is accepted, whatever the secret
\* it was signed with and whatever its type
verify_access_token_AnyKind(reg, token, client_ip, clock) ==
    IF token \notin DOMAIN reg THEN JWTError("Token not found or revoked")
    ELSE IF token.payload.exp < clock
    THEN HTTPException(401, <<"Invalid token: ", "Signature has expired.">>)
    ELSE Ok(PayloadData(token.payload))

verify_access_token(reg, token, client_ip, clock) ==
    IF token \notin DOMAIN reg THEN JWTError("Token not found or revoked")
    ELSE LET d == jwt_decode(token, SECRET_KEY, clock) IN
         IF ~d.ok THEN HTTPException(401, <<"Invalid token: ", d.msg>>)
         ELSE LET v == _validate_token_payload(d.payload, client_ip, "access", clock) IN
              IF v # "" THEN HTTPException(401, <<"Invalid token: ", v>>)
              ELSE Ok(PayloadData(d.payload))

verify_refresh_token(reg, token, client_ip, clock) ==
    IF token \notin DOMAIN reg THEN JWTError("Token not found or revoked")
    ELSE LET d == jwt_decode(token, REFRESH_SECRET_KEY, clock) IN
         IF ~d.ok THEN HTTPException(401, <<"Invalid refresh token: ", d.msg>>)
         ELSE LET v == _validate_token_payload(d.payload, client_ip, "refresh", clock) IN
              IF v # "" THEN HTTPException(401, <<"Invalid refresh token: ", v>>)
              ELSE Ok(PayloadData(d.payload))

\* mutant: a refresh pushes the expiry of the refresh token's registry entry
\* forward (a sliding session)
refresh_token_Sliding(reg, refresh, client_ip, clock) ==
    [result |-> verify_refresh_token(reg, refresh, client_ip, clock),
     access_token |-> NoToken,
     reg |-> IF refresh \in DOMAIN reg /\ refresh.payload.type = "refresh"
             THEN [reg EXCEPT ![refresh].exp = clock + refresh_token_expiry]
             ELSE reg]

\* refresh_token: the outcome, the access token it minted (NoToken when it
\* failed) and the registry it leaves
refresh_token(reg, refresh, client_ip, clock) ==
    LET r == verify_refresh_token(reg, refresh, client_ip, clock) IN
    IF r.exc # "none"
    THEN [result |-> r, access_token |-> NoToken, reg |-> reg]
    ELSE LET a == AccessToken(r.data, client_ip, clock) IN
         [result |-> r, access_token |-> a, reg |-> Register(reg, a, clock)]

\* mutant: the `if not token` check is missing, so that a request without an
\* access cookie goes down the refresh path
get_current_user_NoMissingCheck(reg, access, refresh, client_ip, clock) ==
    [result |-> HTTPException(401, <<"Invalid or expired credentials">>),
     refreshes |-> IF refresh = NoToken THEN 0 ELSE 1,
     access_token |-> NoToken, reg |-> reg]

\* get_current_user (auth.py and dependencies.py): the outcome, the number of
\* refreshes it attempted, the access token it minted and the registry it leaves
get_current_user(reg, access, refresh, client_ip, clock) ==
    IF access = NoToken
    THEN [result |-> HTTPException(401, <<"Missing access token">>),
          refreshes |-> 0, access_token |-> NoToken, reg |-> reg]
    ELSE LET first == verify_access_token(reg, access, client_ip, clock) IN
         IF first.exc # "HTTPException"
         THEN \* returned, or a JWTError that `except HTTPException` lets through
              [result |-> first, refreshes |-> 0, access_token |-> NoToken, reg |-> reg]
         ELSE IF refresh = NoToken
         THEN [result |-> HTTPException(401, <<"Invalid or expired credentials">>),
               refreshes |-> 0, access_token |-> NoToken, reg |-> reg]
         ELSE LET new_token == refresh_token(reg, refresh, client_ip, clock) IN
              IF new_token.result.exc = "JWTError"
              THEN [result |-> new_token.result, refreshes |-> 1,
                    access_token |-> NoToken, reg |-> reg]
              ELSE IF new_token.result.exc = "HTTPException"
              THEN [result |-> HTTPException(401, <<"Invalid or expired credentials">>),
                    refreshes |-> 1, access_token |-> NoToken, reg |-> reg]
              ELSE LET again == verify_access_token(new_token.reg, new_token.access_token,
                                                    client_ip, clock) IN
                   [result |-> IF again.exc = "HTTPException"
                               THEN HTTPException(401, <<"Invalid or expired credentials">>)
                               ELSE again,
                    refreshes |-> 1, access_token |-> new_token.access_token,
                    reg |-> new_token.reg]

\* ------------------------------------------------------------- role gate
\* roles an employee row can carry and roles the routes require
Roles == {"admin", "hr", "employee"}
RequiredRoles == {"admin", "hr"}

\* mutant: a hierarchy in which admin passes every gate
role_checker_Hierarchy(required_role, current_user) ==
    IF current_user.role # required_role /\ current_user.role # "admin"
    THEN HTTPException(403, <<"Insufficient permissions">>)
    ELSE Ok(current_user)

\* the role_checker that require_role(required_role) returns, applied to the
\* TokenData its dependency get_current_user returned
role_checker(required_role, current_user) ==
    IF current_user.role # required_role
    THEN HTTPException(403, <<"Insufficient permissions">>)
    ELSE Ok(current_user)

\* Depends(get_current_user) followed by role_checker: an exception of the
\* dependency is the response, and role_checker is not called
require_role(required_role, current_user) ==
    IF current_user.exc # "none"
    THEN current_user
    ELSE role_checker(required_role, current_user.data)

\* ------------------------------------------------------ temporary tokens
\* mutant: the stored ip is not compared with the caller's address
verify_temp_token_NoIp(store, token, client_ip, clock) ==
    IF token \notin DOMAIN store THEN FALSE
    ELSE IF clock > store[token].expires_at THEN FALSE
    ELSE IF store[token].used THEN FALSE
    ELSE TRUE

\* mutant: a temp token is rejected from the instant of its expiry on
verify_temp_token_AtExpiry(store, token, client_ip, clock) ==
    IF token \notin DOMAIN store THEN FALSE
    ELSE IF clock >= store[token].expires_at THEN FALSE
    ELSE IF store[token].used THEN FALSE
    ELSE IF store[token].ip # client_ip THEN FALSE
    ELSE TRUE

\* mutant: the used flag is not read
verify_temp_token_NoUsed(store, token, client_ip, clock) ==
    IF token \notin DOMAIN store THEN FALSE
    ELSE IF clock > store[token].expires_at THEN FALSE
    ELSE IF store[token].ip # client_ip THEN FALSE
    ELSE TRUE

\* mutant: expires_at is not compared with the clock
verify_temp_token_NoExpiry(store, token, client_ip, clock) ==
    IF token \notin DOMAIN store THEN FALSE
    ELSE IF store[token].used THEN FALSE
    ELSE IF store[token].ip # client_ip THEN FALSE
    ELSE TRUE

verify_temp_token(store, token, client_ip, clock) ==
    IF token \notin DOMAIN store THEN FALSE
    ELSE IF clock > store[token].expires_at THEN FALSE
    ELSE IF store[token].used THEN FALSE
    ELSE IF store[token].ip # client_ip THEN FALSE
    ELSE TRUE

\* mutant: the used flag is flipped
mark_temp_token_used_Toggle(store, token) ==
    IF token \in DOMAIN store
    THEN [store EXCEPT ![token].used = ~@]
    ELSE store

\* mutant: the used flag is never set
mark_temp_token_used_Unset(store, token) == store

mark_temp_token_used(store, token) ==
    IF token \in DOMAIN store
    THEN [store EXCEPT ![token].used = TRUE]
    ELSE store

\* authenticate_user once the employee row has been read
authenticate_user(username, password) ==
    IF username \notin DOMAIN Employee
       \/ ~verify_password(password, Employee[username].password_hash)
    THEN HTTPException(401, <<"Invalid credentials">>)
    ELSE Ok(TokenData(Employee[username].username, Employee[username].role,
                      Employee[username].empid))

\* ------------------------------------------------------------------- state
VARIABLES
    now,               \* datetime.utcnow(), in minutes since process start
    temp_token_store,  \* temp token -> [expires_at, used, ip]
    issued,            \* number of temp tokens generated so far
    active_tokens,     \* token -> [empid, ip, exp, created_at]
    pending,           \* login calls suspended at the user lookup
    minted,            \* every session token string handed to a client
    removed,           \* session token strings deleted by revoke or the sweep
    successes,         \* temp token -> number of logins that succeeded with it
    leaves_available,  \* employees table: empid -> leaves_available
    leaves,            \* leaves table: leave_id -> [empid, start_date, end_date, status]
    sessions,          \* database sessions of leave handlers that have read
                       \* their rows and have not committed yet
    last               \* the handler step the event loop ran last, with what it
                       \* returned or raised; Idle between two of them

vars == <<now, temp_token_store, issued, active_tokens, pending,
          minted, removed, successes, leaves_available, leaves, sessions, last>>

\* the tables of the leave routes before any leave request: the balance of
\* an employee row is the column's default
NoLeaves ==
    /\ leaves_available = [empid \in {Employee[u].empid : u \in DOMAIN Employee} |-> 0]
    /\ leaves = <<>>
    /\ sessions = {}

\* no handler has run since the event loop took control back
Idle == [op |-> "idle"]

Init ==
    /\ NoLeaves
    /\ now = 0
    /\ temp_token_store = <<>>
    /\ issued = 0
    /\ active_tokens = <<>>
    /\ pending = EmptyBag
    /\ minted = {}
    /\ removed = {}
    /\ successes = [t \in TempIds \cup {UnknownTemp} |-> 0]
    /\ last = Idle

\* token strings a client can present
Presentable == minted

\* ----------------------------------------------------------------- actions
\* the event loop runs one handler step at a time (single-threaded asyncio):
\* a step starts only when the one before has handed control back
Return ==
    /\ last.op # "idle"
    /\ last' = Idle
    /\ UNCHANGED <<now, temp_token_store, issued, active_tokens, pending,
                   minted, removed, successes>>
    /\ UNCHANGED <<leaves_available, leaves, sessions>>

Tick(t) ==
    /\ last.op = "idle"
    /\ t > now
    /\ now' = t
    /\ last' = last
    /\ UNCHANGED <<temp_token_store, issued, active_tokens, pending,
                   minted, removed, successes>>
    /\ UNCHANGED <<leaves_available, leaves, sessions>>

create_temp_token(client_ip) ==
    /\ last.op = "idle"
    /\ issued < MaxTemp
    /\ issued' = issued + 1
    /\ temp_token_store' =
           [t \in DOMAIN temp_token_store \cup {issued + 1} |->
               IF t = issued + 1
               THEN [expires_at |-> now + temp_token_expiry, used |-> FALSE,
                     ip |-> client_ip]
               ELSE temp_token_store[t]]
    /\ last' = [op |-> "create_temp_token", client_ip |-> client_ip,
                temp_token |-> issued + 1]
    /\ UNCHANGED <<now, active_tokens, pending, minted,
                   removed, successes>>
    /\ UNCHANGED <<leaves_available, leaves, sessions>>

LoginCall(username, password, temp_token, client_ip) ==
    [username |-> username, password |-> password, temp_token |-> temp_token,
     client_ip |-> client_ip]

\* login up to `await self.authenticate_user(...)`: rejected on the temp
\* token, or suspended at the user lookup
login_begin(username, password, temp_token, client_ip) ==
    LET call == LoginCall(username, password, temp_token, client_ip) IN
    /\ last.op = "idle"
    /\ IF ~verify_temp_token(temp_token_store, temp_token, client_ip, now)
       THEN /\ last' = [op |-> "login", call |-> call,
                        result |-> HTTPException(401, <<"Invalid or expired temporary token">>),
                        access_token |-> NoToken, refresh_token |-> NoToken]
            /\ pending' = pending
       ELSE /\ BagCardinality(pending) < MaxLogins
            /\ pending' = pending (+) SetToBag({call})
            /\ last' = [op |-> "login_suspended", call |-> call]
    /\ UNCHANGED <<now, temp_token_store, issued, active_tokens,
                   minted, removed, successes>>
    /\ UNCHANGED <<leaves_available, leaves, sessions>>

\* mutant: create_refresh_token raises, after the temp token was consumed and
\* the access token registered
login_resume_Partial(call) ==
    LET auth == authenticate_user(call.username, call.password)
        access_token == AccessToken(auth.data, call.client_ip, now)
    IN
    /\ last.op = "idle"
    /\ pending' = pending (-) SetToBag({call})
    /\ IF auth.exc # "none"
       THEN /\ last' = [op |-> "login", call |-> call, result |-> auth,
                        access_token |-> NoToken, refresh_token |-> NoToken]
            /\ UNCHANGED <<temp_token_store, active_tokens, minted>>
       ELSE /\ temp_token_store' = mark_temp_token_used(temp_token_store, call.temp_token)
            /\ active_tokens' = Register(active_tokens, access_token, now)
            /\ minted' = minted \cup {access_token}
            /\ last' = [op |-> "login", call |-> call,
                        result |-> JWTError("create_refresh_token"),
                        access_token |-> NoToken, refresh_token |-> NoToken]
    /\ UNCHANGED <<now, issued, removed, successes>>
    /\ UNCHANGED <<leaves_available, leaves, sessions>>

\* mutant: the temp token is consumed before the credentials are judged
login_resume_ConsumeFirst(call) ==
    LET auth == authenticate_user(call.username, call.password)
        access_token == AccessToken(auth.data, call.client_ip, now)
        refresh == RefreshToken(auth.data, call.client_ip, now)
    IN
    /\ last.op = "idle"
    /\ pending' = pending (-) SetToBag({call})
    /\ temp_token_store' = mark_temp_token_used(temp_token_store, call.temp_token)
    /\ IF auth.exc # "none"
       THEN /\ last' = [op |-> "login", call |-> call, result |-> auth,
                        access_token |-> NoToken, refresh_token |-> NoToken]
            /\ UNCHANGED <<active_tokens, minted, successes>>
       ELSE /\ active_tokens' = Register(Register(active_tokens, access_token, now),
                                         refresh, now)
            /\ minted' = minted \cup {access_token, refresh}
            /\ successes' = [successes EXCEPT ![call.temp_token] = @ + 1]
            /\ last' = [op |-> "login", call |-> call, result |-> Ok(auth.data),
                        access_token |-> access_token, refresh_token |-> refresh]
    /\ UNCHANGED <<now, issued, removed>>
    /\ UNCHANGED <<leaves_available, leaves, sessions>>

\* login from the return of the user lookup to its end
login_resume(call) ==
    LET auth == authenticate_user(call.username, call.password)
        access_token == AccessToken(auth.data, call.client_ip, now)
        refresh == RefreshToken(auth.data, call.client_ip, now)
    IN
    /\ last.op = "idle"
    /\ pending' = pending (-) SetToBag({call})
    /\ IF auth.exc # "none"
       THEN /\ last' = [op |-> "login", call |-> call, result |-> auth,
                        access_token |-> NoToken, refresh_token |-> NoToken]
            /\ UNCHANGED <<temp_token_store, active_tokens, minted, successes>>
       ELSE /\ temp_token_store' = mark_temp_token_used(temp_token_store, call.temp_token)
            /\ active_tokens' = Register(Register(active_tokens, access_token, now),
                                         refresh, now)
            /\ minted' = minted \cup {access_token, refresh}
            /\ successes' = [successes EXCEPT ![call.temp_token] = @ + 1]
            /\ last' = [op |-> "login", call |-> call, result |-> Ok(auth.data),
                        access_token |-> access_token, refresh_token |-> refresh]
    /\ UNCHANGED <<now, issued, removed>>
    /\ UNCHANGED <<leaves_available, leaves, sessions>>

\* the task of a login is cancelled while it awaits the user lookup
login_abort(call) ==
    /\ last.op = "idle"
    /\ pending' = pending (-) SetToBag({call})
    /\ last' = [op |-> "login_aborted", call |-> call]
    /\ UNCHANGED <<now, temp_token_store, issued, active_tokens,
                   minted, removed, successes>>
    /\ UNCHANGED <<leaves_available, leaves, sessions>>

VerifyAccess(token, client_ip) ==
    /\ last.op = "idle"
    /\ last' = [op |-> "verify_access_token", token |-> token, client_ip |-> client_ip,
                result |-> verify_access_token(active_tokens, token, client_ip, now)]
    /\ UNCHANGED <<now, temp_token_store, issued, active_tokens, pending,
                   minted, removed, successes>>
    /\ UNCHANGED <<leaves_available, leaves, sessions>>

Refresh(token, client_ip) ==
    LET r == refresh_token(active_tokens, token, client_ip, now) IN
    /\ last.op = "idle"
    /\ active_tokens' = r.reg
    /\ minted' = minted \cup ({r.access_token} \ {NoToken})
    /\ last' = [op |-> "refresh_token", token |-> token, client_ip |-> client_ip,
                result |-> r.result, access_token |-> r.access_token]
    /\ UNCHANGED <<now, temp_token_store, issued, pending,
                   removed, successes>>
    /\ UNCHANGED <<leaves_available, leaves, sessions>>

\* mutant: revoke ends the whole session: every entry of the token's user
\* and IP is removed with it
revoke_token_Session(token) ==
    /\ last.op = "idle"
    /\ IF token \in DOMAIN active_tokens
       THEN LET session == {k \in DOMAIN active_tokens :
                              /\ k.payload.username = token.payload.username
                              /\ k.payload.ip = token.payload.ip}
            IN /\ active_tokens' = Remove(active_tokens, session)
               /\ removed' = removed \cup session
               /\ last' = [op |-> "revoke_token", token |-> token, result |-> TRUE]
       ELSE /\ last' = [op |-> "revoke_token", token |-> token, result |-> FALSE]
            /\ UNCHANGED <<active_tokens, removed>>
    /\ UNCHANGED <<now, temp_token_store, issued, pending,
                   minted, successes>>
    /\ UNCHANGED <<leaves_available, leaves, sessions>>

\* mutant: revoke reports success also for a token that was not registered
revoke_token_AlwaysTrue(token) ==
    /\ last.op = "idle"
    /\ active_tokens' = Remove(active_tokens, {token})
    /\ removed' = removed \cup ({token} \cap DOMAIN active_tokens)
    /\ last' = [op |-> "revoke_token", token |-> token, result |-> TRUE]
    /\ UNCHANGED <<now, temp_token_store, issued, pending,
                   minted, successes>>
    /\ UNCHANGED <<leaves_available, leaves, sessions>>

revoke_token(token) ==
    /\ last.op = "idle"
    /\ IF token \in DOMAIN active_tokens
       THEN /\ active_tokens' = Remove(active_tokens, {token})
            /\ removed' = removed \cup {token}
            /\ last' = [op |-> "revoke_token", token |-> token, result |-> TRUE]
       ELSE /\ last' = [op |-> "revoke_token", token |-> token, result |-> FALSE]
            /\ UNCHANGED <<active_tokens, removed>>
    /\ UNCHANGED <<now, temp_token_store, issued, pending,
                   minted, successes>>
    /\ UNCHANGED <<leaves_available, leaves, sessions>>

\* mutant: the registry entry of a refresh token records exp as a datetime,
\* on which fromtimestamp raises: the iteration that meets one ends the task
cleanup_expired_tokens_Raises ==
    LET expired_temp == {k \in DOMAIN temp_token_store :
                            temp_token_store[k].expires_at < now}
        expired_active == {k \in DOMAIN active_tokens : active_tokens[k].exp < now}
    IN
    /\ last.op = "idle"
    /\ \A k \in DOMAIN active_tokens : k.payload.type = "access"
    /\ temp_token_store' = Remove(temp_token_store, expired_temp)
    /\ active_tokens' = Remove(active_tokens, expired_active)
    /\ removed' = removed \cup expired_active
    /\ last' = [op |-> "cleanup_expired_tokens", expired_temp |-> expired_temp,
                expired_active |-> expired_active]
    /\ UNCHANGED <<now, issued, pending, minted, successes>>
    /\ UNCHANGED <<leaves_available, leaves, sessions>>

\* mutant: the sweep deletes from a stale collection of keys, which still
\* lists the tokens that have left the registry since they were minted
cleanup_expired_tokens_Stale ==
    LET expired_temp == {k \in DOMAIN temp_token_store :
                            temp_token_store[k].expires_at < now}
        expired_active == {k \in minted : k.payload.exp < now}
    IN
    /\ last.op = "idle"
    /\ temp_token_store' = Remove(temp_token_store, expired_temp)
    /\ active_tokens' = Remove(active_tokens, expired_active)
    /\ removed' = removed \cup expired_active
    /\ last' = [op |-> "cleanup_expired_tokens", expired_temp |-> expired_temp,
                expired_active |-> expired_active]
    /\ UNCHANGED <<now, issued, pending, minted, successes>>
    /\ UNCHANGED <<leaves_available, leaves, sessions>>

\* mutant: the sweep also deletes the entries that expire at this very instant
cleanup_expired_tokens_AtExpiry ==
    LET expired_temp == {k \in DOMAIN temp_token_store :
                            temp_token_store[k].expires_at <= now}
        expired_active == {k \in DOMAIN active_tokens : active_tokens[k].exp <= now}
    IN
    /\ last.op = "idle"
    /\ temp_token_store' = Remove(temp_token_store, expired_temp)
    /\ active_tokens' = Remove(active_tokens, expired_active)
    /\ removed' = removed \cup expired_active
    /\ last' = [op |-> "cleanup_expired_tokens", expired_temp |-> expired_temp,
                expired_active |-> expired_active]
    /\ UNCHANGED <<now, issued, pending, minted, successes>>
    /\ UNCHANGED <<leaves_available, leaves, sessions>>

\* one iteration of the sweep loop, from its wake-up to its next sleep
cleanup_expired_tokens ==
    LET expired_temp == {k \in DOMAIN temp_token_store :
                            temp_token_store[k].expires_at < now}
        expired_active == {k \in DOMAIN active_tokens : active_tokens[k].exp < now}
    IN
    /\ last.op = "idle"
    /\ temp_token_store' = Remove(temp_token_store, expired_temp)
    /\ active_tokens' = Remove(active_tokens, expired_active)
    /\ removed' = removed \cup expired_active
    /\ last' = [op |-> "cleanup_expired_tokens", expired_temp |-> expired_temp,
                expired_active |-> expired_active]
    /\ UNCHANGED <<now, issued, pending, minted, successes>>
    /\ UNCHANGED <<leaves_available, leaves, sessions>>

GetCurrentUser(access, refresh, client_ip) ==
    LET r == get_current_user(active_tokens, access, refresh, client_ip, now) IN
    /\ last.op = "idle"
    /\ active_tokens' = r.reg
    /\ minted' = minted \cup ({r.access_token} \ {NoToken})
    /\ last' = [op |-> "get_current_user", access |-> access, refresh |-> refresh,
                client_ip |-> client_ip, result |-> r.result,
                refreshes |-> r.refreshes, access_token |-> r.access_token,
                before |-> DOMAIN active_tokens]
    /\ UNCHANGED <<now, temp_token_store, issued, pending,
                   removed, successes>>
    /\ UNCHANGED <<leaves_available, leaves, sessions>>

\* a request to a route declared with Depends(require_role(required_role))
RequireRole(required_role, access, refresh, client_ip) ==
    LET r == get_current_user(active_tokens, access, refresh, client_ip, now) IN
    /\ last.op = "idle"
    /\ active_tokens' = r.reg
    /\ minted' = minted \cup ({r.access_token} \ {NoToken})
    /\ last' = [op |-> "require_role", required_role |-> required_role,
                current_user |-> r.result,
                result |-> require_role(required_role, r.result)]
    /\ UNCHANGED <<now, temp_token_store, issued, pending,
                   removed, successes>>
    /\ UNCHANGED <<leaves_available, leaves, sessions>>

Next ==
    \/ Return
    \/ \E t \in Instants : Tick(t)
    \/ \E ip \in ClientIps : create_temp_token(ip)
    \/ \E c \in Credentials, t \in TempIds \cup {UnknownTemp}, ip \in ClientIps :
          login_begin(c[1], c[2], t, ip)
    \/ \E call \in BagToSet(pending) : login_resume(call)
    \/ \E call \in BagToSet(pending) : login_abort(call)
    \/ \E t \in Presentable, ip \in ClientIps : VerifyAccess(t, ip)
    \/ \E t \in Presentable, ip \in ClientIps : Refresh(t, ip)
    \/ \E t \in Presentable : revoke_token(t)
    \/ cleanup_expired_tokens
    \/ \E a \in Presentable \cup {NoToken}, r \in Presentable \cup {NoToken},
          ip \in ClientIps : GetCurrentUser(a, r, ip)
    \/ \E role \in RequiredRoles, a \in Presentable \cup {NoToken},
          r \in Presentable \cup {NoToken}, ip \in ClientIps :
          RequireRole(role, a, r, ip)

Spec == Init /\ [][Next]_vars

\* the event loop gives control back after every handler step, and the sweep
\* task created at startup is woken again after every sleep
SpecFair ==
    /\ Spec
    /\ WF_vars(Return)
    /\ SF_vars(cleanup_expired_tokens)

\* ------------------------------------------- the role gate on its inputs
\* role_checker is a function of the required role and of the TokenData it is
\* given: it is applied here to every TokenData over these sets
Usernames == {"alice", "bob", "carol"}
Empids == {1, 2, 3}

InitRole ==
    /\ NoLeaves
    /\ now = 0
    /\ temp_token_store = <<>>
    /\ issued = 0
    /\ active_tokens = <<>>
    /\ pending = EmptyBag
    /\ minted = {}
    /\ removed = {}
    /\ successes = [t \in TempIds \cup {UnknownTemp} |-> 0]
    /\ \E required_role \in Roles, username \in Usernames, role \in Roles,
          empid \in Empids :
          last = [op |-> "depends", required_role |-> required_role,
                  current_user |-> TokenData(username, role, empid)]

RoleChecker ==
    /\ last.op = "depends"
    /\ last' = [op |-> "role_checker", required_role |-> last.required_role,
                current_user |-> last.current_user,
                result |-> role_checker(last.required_role, last.current_user)]
    /\ UNCHANGED <<now, temp_token_store, issued, active_tokens, pending,
                   minted, removed, successes>>
    /\ UNCHANGED <<leaves_available, leaves, sessions>>

NextRole == RoleChecker

SpecRole == InitRole /\ [][NextRole]_vars

\* ------------------------------- mark_temp_token_used on its inputs
\* mark_temp_token_used is a function of the store and of the token: it is
\* applied here, repeatedly, to every store of up to MaxTemp + 1 records
StoreKeys == 1..(MaxTemp + 1)
UnknownKey == MaxTemp + 2
TempRecords ==
    [expires_at : {t + temp_token_expiry : t \in {0, ACCESS_TOKEN_EXPIRE_MINUTES}},
     used : BOOLEAN, ip : ClientIps]
TempStores == UNION {[K -> TempRecords] : K \in SUBSET StoreKeys}

InitConsume ==
    /\ NoLeaves
    /\ now = 0
    /\ temp_token_store \in TempStores
    /\ issued = 0
    /\ active_tokens = <<>>
    /\ pending = EmptyBag
    /\ minted = {}
    /\ removed = {}
    /\ successes = [t \in TempIds \cup {UnknownTemp} |-> 0]
    /\ last = Idle

MarkTempTokenUsed(token) ==
    /\ temp_token_store' = mark_temp_token_used(temp_token_store, token)
    /\ last' = [op |-> "mark_temp_token_used", token |-> token,
                before |-> temp_token_store]
    /\ UNCHANGED <<now, issued, active_tokens, pending, minted, removed, successes>>
    /\ UNCHANGED <<leaves_available, leaves, sessions>>

NextConsume == \E token \in StoreKeys \cup {UnknownKey} : MarkTempTokenUsed(token)

SpecConsume == InitConsume /\ [][NextConsume]_vars

\* ---------------------------- _validate_token_payload on its inputs
\* _validate_token_payload is a function of the payload, the caller's address,
\* the expected type and the clock: it is applied here to payloads of the
\* wire format (with sub) and of the shape create_*_token writes (with
\* username), of both types, for both addresses and two expiries
Payloads ==
    [sub : {"alice"}, role : {"admin"}, empid : {1},
     exp : {ACCESS_TOKEN_EXPIRE_MINUTES, refresh_token_expiry},
     ip : ClientIps, type : {"access", "refresh"}]
    \cup
    [username : {"alice"}, role : {"admin"}, empid : {1},
     exp : {ACCESS_TOKEN_EXPIRE_MINUTES, refresh_token_expiry},
     ip : ClientIps, type : {"access", "refresh"}]

InitValidate ==
    /\ NoLeaves
    /\ now \in Instants
    /\ temp_token_store = <<>>
    /\ issued = 0
    /\ active_tokens = <<>>
    /\ pending = EmptyBag
    /\ minted = {}
    /\ removed = {}
    /\ successes = [t \in TempIds \cup {UnknownTemp} |-> 0]
    /\ \E payload \in Payloads, client_ip \in ClientIps,
          token_type \in {"access", "refresh"} :
          last = [op |-> "payload", payload |-> payload, client_ip |-> client_ip,
                  token_type |-> token_type]

ValidateTokenPayload ==
    /\ last.op = "payload"
    /\ last' = [op |-> "_validate_token_payload", payload |-> last.payload,
                client_ip |-> last.client_ip, token_type |-> last.token_type,
                result |-> _validate_token_payload(last.payload, last.client_ip,
                                                   last.token_type, now)]
    /\ UNCHANGED <<now, temp_token_store, issued, active_tokens, pending,
                   minted, removed, successes>>
    /\ UNCHANGED <<leaves_available, leaves, sessions>>

NextValidate == ValidateTokenPayload

SpecValidate == InitValidate /\ [][NextValidate]_vars

\* ------------------------------------------- the sweep at the expiries
\* the sweep run at the very instants at which temp tokens and session tokens
\* expire, on every temp token store of TempStores and every registry that
\* revokes can leave of the two tokens of a login at process start
SweepInstants == Instants \cup {r.expires_at : r \in TempRecords}

FirstLogin ==
    LET token_data == TokenData(Employee["alice"].username, Employee["alice"].role,
                                Employee["alice"].empid)
    IN {AccessToken(token_data, "10.0.0.1", 0), RefreshToken(token_data, "10.0.0.1", 0)}

InitSweep ==
    /\ NoLeaves
    /\ now = 0
    /\ temp_token_store \in TempStores
    /\ issued = MaxTemp
    /\ \E revoked \in SUBSET FirstLogin :
          /\ active_tokens = [k \in FirstLogin \ revoked |-> Entry(k, 0)]
          /\ removed = revoked
    /\ pending = EmptyBag
    /\ minted = FirstLogin
    /\ successes = [t \in TempIds \cup {UnknownTemp} |-> 0]
    /\ last = Idle

NextSweep ==
    \/ Return
    \/ \E t \in SweepInstants : Tick(t)
    \/ cleanup_expired_tokens

SpecSweep == InitSweep /\ [][NextSweep]_vars

\* ------------------------------------------------------- the leave routes
\* The handlers of routers/leaves.py, run on a Session as their signatures
\* declare it. They are plain functions, which the framework runs on worker
\* threads, each request with a session of its own: a handler reads its
\* rows, decides, and writes at db.commit(); other requests can commit in
\* between. The handlers are entered with the current_user the dependency
\* resolved.
MaxLeaves == 2

\* dates, as day numbers
Dates == 1..3

\* balances an HR user has set on the employee rows
Balances == {0, 2}

EmployeeIds == {Employee[u].empid : u \in DOMAIN Employee}

CurrentUsers ==
    {TokenData(Employee[u].username, Employee[u].role, Employee[u].empid) :
       u \in DOMAIN Employee}

\* (end_date - start_date).days + 1
duration(leave) == (leave.end_date - leave.start_date) + 1

DBLeave(empid, start_date, end_date, status) ==
    [empid |-> empid, start_date |-> start_date, end_date |-> end_date,
     status |-> status]

\* the row as the response model returns it
LeaveOut(leave_id, db_leave) ==
    [leave_id |-> leave_id, empid |-> db_leave.empid,
     start_date |-> db_leave.start_date, end_date |-> db_leave.end_date,
     status |-> db_leave.status]

InitLeaves ==
    /\ now = 0
    /\ temp_token_store = <<>>
    /\ issued = 0
    /\ active_tokens = <<>>
    /\ pending = EmptyBag
    /\ minted = {}
    /\ removed = {}
    /\ successes = [t \in TempIds \cup {UnknownTemp} |-> 0]
    /\ leaves_available \in [EmployeeIds -> Balances]
    /\ leaves = <<>>
    /\ sessions = {}
    /\ last = Idle

create_leave(leave, current_user) ==
    /\ last.op = "idle"
    /\ Len(leaves) < MaxLeaves
    /\ IF current_user.empid \notin DOMAIN leaves_available
       THEN /\ last' = [op |-> "create_leave",
                        result |-> HTTPException(404, <<"Employee not found">>)]
            /\ UNCHANGED leaves
       ELSE IF leaves_available[current_user.empid] < duration(leave)
       THEN /\ last' = [op |-> "create_leave",
                        result |-> HTTPException(400, <<"Insufficient leave balance">>)]
            /\ UNCHANGED leaves
       ELSE LET db_leave == DBLeave(current_user.empid, leave.start_date,
                                    leave.end_date, "pending")
            IN /\ leaves' = Append(leaves, db_leave)
               /\ last' = [op |-> "create_leave",
                           result |-> Ok(LeaveOut(Len(leaves) + 1, db_leave))]
    /\ UNCHANGED <<now, temp_token_store, issued, active_tokens, pending,
                   minted, removed, successes, leaves_available, sessions>>

\* approve_leave up to db.commit(): the rows are read and the new values set
\* on the session's objects
approve_leave(leave_id) ==
    /\ last.op = "idle"
    /\ IF leave_id \notin DOMAIN leaves
       THEN /\ last' = [op |-> "approve_leave", leave_id |-> leave_id,
                        result |-> HTTPException(404, <<"Leave request not found">>)]
            /\ UNCHANGED sessions
       ELSE IF leaves[leave_id].status # "pending"
       THEN /\ last' = [op |-> "approve_leave", leave_id |-> leave_id,
                        result |-> HTTPException(400,
                           <<"Only pending leave requests can be approved">>)]
            /\ UNCHANGED sessions
       ELSE IF leaves[leave_id].empid \notin DOMAIN leaves_available
       THEN /\ last' = [op |-> "approve_leave", leave_id |-> leave_id,
                        result |-> HTTPException(404, <<"Employee not found">>)]
            /\ UNCHANGED sessions
       ELSE IF leaves_available[leaves[leave_id].empid] < duration(leaves[leave_id])
       THEN /\ last' = [op |-> "approve_leave", leave_id |-> leave_id,
                        result |-> HTTPException(400,
                           <<"Employee doesn't have sufficient leave balance">>)]
            /\ UNCHANGED sessions
       ELSE /\ sessions' = sessions \cup
                   {[op |-> "approve_leave", leave_id |-> leave_id,
                     status |-> "approved",
                     empid |-> leaves[leave_id].empid,
                     read |-> leaves_available[leaves[leave_id].empid],
                     leaves_available |->
                        leaves_available[leaves[leave_id].empid]
                          - duration(leaves[leave_id])]}
            /\ last' = [op |-> "approve_leave_read", leave_id |-> leave_id]
    /\ UNCHANGED <<now, temp_token_store, issued, active_tokens, pending,
                   minted, removed, successes, leaves_available, leaves>>

\* reject_leave up to db.commit()
reject_leave(leave_id) ==
    /\ last.op = "idle"
    /\ IF leave_id \notin DOMAIN leaves
       THEN /\ last' = [op |-> "reject_leave", leave_id |-> leave_id,
                        result |-> HTTPException(404, <<"Leave request not found">>)]
            /\ UNCHANGED sessions
       ELSE IF leaves[leave_id].status # "pending"
       THEN /\ last' = [op |-> "reject_leave", leave_id |-> leave_id,
                        result |-> HTTPException(400,
                           <<"Only pending leave requests can be rejected">>)]
            /\ UNCHANGED sessions
       ELSE /\ sessions' = sessions \cup
                   {[op |-> "reject_leave", leave_id |-> leave_id,
                     status |-> "rejected"]}
            /\ last' = [op |-> "reject_leave_read", leave_id |-> leave_id]
    /\ UNCHANGED <<now, temp_token_store, issued, active_tokens, pending,
                   minted, removed, successes, leaves_available, leaves>>

\* db.commit() and db.refresh(db_leave) of approve_leave and reject_leave:
\* the flush writes the attributes whose value the handler changed, by
\* primary key, and the handler returns the row
commit(session) ==
    /\ last.op = "idle"
    /\ sessions' = sessions \ {session}
    /\ leaves' = [leaves EXCEPT ![session.leave_id].status = session.status]
    /\ IF session.op = "approve_leave" /\ session.leaves_available # session.read
       THEN leaves_available' =
               [leaves_available EXCEPT ![session.empid] = session.leaves_available]
       ELSE UNCHANGED leaves_available
    /\ last' = [op |-> session.op, leave_id |-> session.leave_id,
                result |-> Ok(LeaveOut(session.leave_id, leaves'[session.leave_id]))]
    /\ UNCHANGED <<now, temp_token_store, issued, active_tokens, pending,
                   minted, removed, successes>>

NextLeaves ==
    \/ Return
    \/ \E start_date \in Dates, end_date \in Dates, current_user \in CurrentUsers :
          create_leave([start_date |-> start_date, end_date |-> end_date],
                       current_user)
    \/ \E leave_id \in 1..(MaxLeaves + 1) : approve_leave(leave_id)
    \/ \E leave_id \in 1..(MaxLeaves + 1) : reject_leave(leave_id)
    \/ \E session \in sessions : commit(session)

SpecLeaves == InitLeaves /\ [][NextLeaves]_vars

\* ------------------------------------------------- vocabulary of the claims
InvalidTempToken(r) ==
    r.exc = "HTTPException" /\ r.detail = <<"Invalid or expired temporary token">>

TokenNotFound(r) ==
    r.exc = "JWTError" /\ r.detail = <<"Token not found or revoked">>

Expired(r) ==
    /\ r.exc = "HTTPException"
    /\ Len(r.detail) = 2
    /\ r.detail[2] \in {"Signature has expired.", "Token expired"}

Succeeded(r) == r.exc = "none"

Registered(token) == token \in DOMAIN active_tokens

\* the stored password hash of the user matches the submitted password
ValidCredentials(call) ==
    /\ call.username \in DOMAIN Employee
    /\ Employee[call.username].password_hash = <<"bcrypt", call.password>>

\* the temp token was issued for client_ip, is unexpired and unused
UsableTemp(temp_token, client_ip) ==
    /\ temp_token \in DOMAIN temp_token_store
    /\ temp_token_store[temp_token].ip = client_ip
    /\ ~temp_token_store[temp_token].used
    /\ now <= temp_token_store[temp_token].expires_at

\* this step is the start of a login call
LoginStarts ==
    /\ last.op = "idle"
    /\ \/ last'.op = "login_suspended"
       \/ last'.op = "login" /\ pending' = pending

\* ------------------------------------------------------------------ claims

\* C1: a login with matching credentials and a temp token that was issued for
\* the caller's IP and is unexpired and unused passes the temp-token check,
\* and once its user lookup returns it succeeds with an access and a refresh
\* token whose ip claim is the caller's IP, both in the registry.
C1_LoginSucceeds ==
    /\ [][(LoginStarts /\ ValidCredentials(last'.call)
            /\ UsableTemp(last'.call.temp_token, last'.call.client_ip))
          => last'.op = "login_suspended"]_vars
    /\ []((last.op = "login" /\ ~InvalidTempToken(last.result)
            /\ ValidCredentials(last.call))
          => /\ Succeeded(last.result)
             /\ last.access_token.payload.type = "access"
             /\ last.refresh_token.payload.type = "refresh"
             /\ last.access_token.payload.ip = last.call.client_ip
             /\ last.refresh_token.payload.ip = last.call.client_ip
             /\ Registered(last.access_token)
             /\ Registered(last.refresh_token))

C1_Witness ==
    /\ last.op = "login"
    /\ ValidCredentials(last.call)
    /\ Succeeded(last.result)
    /\ Registered(last.access_token)
    /\ Registered(last.refresh_token)

\* C2: whatever the interleaving of the login calls that present a temp
\* token, at most one of them succeeds.
C2_AtMostOneLoginPerTempToken ==
    \A t \in TempIds : successes[t] <= 1

\* C3: once a login has succeeded with temp token T, every login call that
\* starts later and presents T is rejected with InvalidTempToken, whatever
\* its credentials, its IP and the clock.
C3_ConsumedTempTokenRejected ==
    [][(LoginStarts /\ successes[last'.call.temp_token] >= 1)
       => (last'.op = "login" /\ InvalidTempToken(last'.result))]_vars

C3_Witness ==
    /\ last.op = "login"
    /\ successes[last.call.temp_token] >= 1
    /\ ValidCredentials(last.call)
    /\ InvalidTempToken(last.result)
    /\ last.call.temp_token \in DOMAIN temp_token_store
    /\ temp_token_store[last.call.temp_token].ip = last.call.client_ip
    /\ now <= temp_token_store[last.call.temp_token].expires_at

\* what a token was minted for
Identity(token) ==
    [username |-> token.payload.username, role |-> token.payload.role,
     empid |-> token.payload.empid]

IsAccess(token) == token.payload.type = "access"

IsRefresh(token) == token.payload.type = "refresh"

\* C4: an access token minted by login or refresh, presented from its bound
\* IP while it is registered, is accepted with its claims at any time up to
\* its exp, and fails with Expired once the clock has passed its exp.
C4_AccessTokenValidUntilExp ==
    (/\ last.op = "verify_access_token"
     /\ IsAccess(last.token)
     /\ Registered(last.token)
     /\ last.client_ip = last.token.payload.ip)
    => /\ now <= last.token.payload.exp
             => (Succeeded(last.result) /\ last.result.data = Identity(last.token))
       /\ now > last.token.payload.exp => Expired(last.result)

\* C5: the token minted for an identity carries the claims sub, role and
\* empid, the required-claims check of validate passes on it, and verifying
\* it returns the identity that was encoded.
C5_IdentityRoundTrip ==
    (last.op = "login" /\ Succeeded(last.result))
    => /\ {"sub", "role", "empid"} \subseteq DOMAIN last.access_token.payload
       /\ _validate_token_payload(last.access_token.payload, last.call.client_ip,
                                  "access", now) = ""
       /\ verify_access_token(active_tokens, last.access_token,
                              last.call.client_ip, now) = Ok(last.result.data)

\* C6: after revoke(token) on a registered access token, verify_access from
\* the token's bound IP fails with TokenNotFound although the token is
\* correctly signed and its exp has not passed.
C6_RevokedTokenNotFound ==
    /\ (last.op = "revoke_token" /\ last.result /\ IsAccess(last.token)
          /\ now <= last.token.payload.exp)
       => TokenNotFound(verify_access_token(active_tokens, last.token,
                                            last.token.payload.ip, now))
    /\ (last.op = "verify_access_token" /\ last.token \in removed
          /\ ~Registered(last.token))
       => TokenNotFound(last.result)

C6_Witness ==
    /\ last.op = "verify_access_token"
    /\ last.token \in removed
    /\ ~Registered(last.token)
    /\ IsAccess(last.token)
    /\ last.client_ip = last.token.payload.ip
    /\ now <= last.token.payload.exp
    /\ TokenNotFound(last.result)

\* C7: verify_access succeeds only on a token that is registered, of kind
\* access, unexpired and bound to the caller's IP; refresh succeeds only on a
\* token that is registered, of kind refresh, unexpired and bound to the
\* caller's IP; an expired token still in the registry is rejected.
C7_HonoredOnlyWhileActive ==
    /\ (last.op = "verify_access_token" /\ Succeeded(last.result))
       => /\ Registered(last.token)
          /\ IsAccess(last.token)
          /\ now <= last.token.payload.exp
          /\ last.token.payload.ip = last.client_ip
    /\ (last.op = "refresh_token" /\ Succeeded(last.result))
       => /\ Registered(last.token)
          /\ IsRefresh(last.token)
          /\ now <= last.token.payload.exp
          /\ last.token.payload.ip = last.client_ip
    /\ (last.op \in {"verify_access_token", "refresh_token"}
          /\ Registered(last.token) /\ now > last.token.payload.exp)
       => ~Succeeded(last.result)

C7_Witness ==
    /\ last.op \in {"verify_access_token", "refresh_token"}
    /\ Registered(last.token)
    /\ now > last.token.payload.exp
    /\ last.token.payload.ip = last.client_ip
    /\ ~Succeeded(last.result)

\* C8: a token string that revoke or the sweep has removed from the registry
\* is never registered again.
C8_RemovalIsTerminal ==
    \A token \in removed : ~Registered(token)

\* C9: a refresh with a registered, unexpired refresh token from its bound IP,
\* after the access token of its login has expired, succeeds, registers a new
\* access token carrying the same sub, role and empid, and leaves the refresh
\* token registered.
C9_RefreshAfterAccessExpiry ==
    (/\ last.op = "refresh_token"
     /\ IsRefresh(last.token)
     /\ Registered(last.token)
     /\ last.client_ip = last.token.payload.ip
     /\ now <= last.token.payload.exp
     /\ now > last.token.payload.exp - refresh_token_expiry + ACCESS_TOKEN_EXPIRE_MINUTES)
    => /\ Succeeded(last.result)
       /\ IsAccess(last.access_token)
       /\ Registered(last.access_token)
       /\ Identity(last.access_token) = Identity(last.token)

\* C10: a request whose access token is expired, invalid or absent from the
\* registry, and whose refresh token is registered, unexpired and bound to the
\* request's IP, is authenticated by exactly one refresh: one new access token
\* is registered and its claims are returned.
C10_TransparentRefresh ==
    (/\ last.op = "get_current_user"
     /\ last.access # NoToken
     /\ \/ last.access \notin last.before
        \/ ~IsAccess(last.access)
        \/ now > last.access.payload.exp
     /\ IsRefresh(last.refresh)
     /\ last.refresh \in last.before
     /\ now <= last.refresh.payload.exp
     /\ last.refresh.payload.ip = last.client_ip)
    => /\ last.refreshes = 1
       /\ Succeeded(last.result)
       /\ last.result.data = Identity(last.refresh)
       /\ IsAccess(last.access_token)
       /\ Registered(last.access_token)

Unauthenticated(r) == r.exc = "HTTPException" /\ r.status = 401

MissingToken(r) == Unauthenticated(r) /\ r.detail = <<"Missing access token">>

\* the first verify_access_token of the request did not return
AccessVerificationFailed ==
    last.access # NoToken /\ ~(last.refreshes = 0 /\ Succeeded(last.result))

\* C11: a request whose access token fails verification and whose refresh
\* token is missing, absent from the registry, expired, bound to another IP,
\* or of the wrong kind (signed with the other secret) is answered 401
\* Unauthenticated, after at most one refresh attempt and with no token
\* registered.
C11_RefreshFailureIsUnauthenticated ==
    (/\ last.op = "get_current_user"
     /\ AccessVerificationFailed
     /\ \/ last.refresh = NoToken
        \/ last.refresh \notin last.before
        \/ now > last.refresh.payload.exp
        \/ last.refresh.payload.ip # last.client_ip
        \/ ~IsRefresh(last.refresh))
    => /\ Unauthenticated(last.result)
       /\ last.refreshes <= 1
       /\ last.access_token = NoToken
       /\ DOMAIN active_tokens = last.before

\* C12: a request without an access token is answered MissingToken, with no
\* refresh attempt and with the temp token store and the registry left as
\* they were, whatever refresh token it carries.
C12_MissingAccessToken ==
    [][(last.op = "idle" /\ last'.op = "get_current_user"
          /\ last'.access = NoToken)
       => /\ MissingToken(last'.result)
          /\ last'.refreshes = 0
          /\ last'.access_token = NoToken
          /\ UNCHANGED <<temp_token_store, active_tokens>>]_vars

C12_Witness ==
    /\ last.op = "get_current_user"
    /\ last.access = NoToken
    /\ IsRefresh(last.refresh)
    /\ Registered(last.refresh)
    /\ now <= last.refresh.payload.exp
    /\ last.refresh.payload.ip = last.client_ip
    /\ MissingToken(last.result)

IpMismatch(r) ==
    Unauthenticated(r) /\ Len(r.detail) = 2 /\ r.detail[2] = "IP address changed"

\* C13: verify_access_token on a registered, unexpired access token, called
\* with a client IP other than the one the token was issued for, fails with
\* IpMismatch.
C13_AccessTokenIpBound ==
    (/\ last.op = "verify_access_token"
     /\ IsAccess(last.token)
     /\ Registered(last.token)
     /\ now <= last.token.payload.exp
     /\ last.client_ip # last.token.payload.ip)
    => IpMismatch(last.result)

C13_Witness ==
    /\ last.op = "verify_access_token"
    /\ IsAccess(last.token)
    /\ Registered(last.token)
    /\ now <= last.token.payload.exp
    /\ last.client_ip # last.token.payload.ip
    /\ last.result = HTTPException(401, <<"Invalid token: ", "IP address changed">>)

\* C14: for a temp token issued for one IP, verify_temp_token from any other
\* IP is false, and a login that presents it from another IP is rejected with
\* InvalidTempToken without reaching the user lookup, also when the token is
\* unexpired and unused and the credentials are valid.
C14_TempTokenIpBound ==
    /\ \A t \in DOMAIN temp_token_store, ip \in ClientIps :
          ip # temp_token_store[t].ip
          => ~verify_temp_token(temp_token_store, t, ip, now)
    /\ (/\ last.op \in {"login", "login_suspended"}
        /\ last.call.temp_token \in DOMAIN temp_token_store
        /\ temp_token_store[last.call.temp_token].ip # last.call.client_ip)
       => (last.op = "login" /\ InvalidTempToken(last.result))

C14_Witness ==
    /\ last.op = "login"
    /\ last.call.temp_token \in DOMAIN temp_token_store
    /\ temp_token_store[last.call.temp_token].ip # last.call.client_ip
    /\ ~temp_token_store[last.call.temp_token].used
    /\ now <= temp_token_store[last.call.temp_token].expires_at
    /\ ValidCredentials(last.call)
    /\ InvalidTempToken(last.result)

InvalidCredentials(r) ==
    Unauthenticated(r) /\ r.detail = <<"Invalid credentials">>

\* C15: a login that passed the temp-token check and whose username is
\* unknown or whose password does not match ends with InvalidCredentials,
\* returns no token and leaves the temp token store and the registry as they
\* were; as long as the temp token is unused, every login that presents it
\* from the same IP with matching credentials up to its expiry passes the
\* temp-token check and the credential check.
C15_FailedCredentialsKeepTempToken ==
    /\ [][(last.op = "idle" /\ last'.op = "login"
            /\ ~InvalidTempToken(last'.result) /\ ~ValidCredentials(last'.call))
          => /\ InvalidCredentials(last'.result)
             /\ last'.access_token = NoToken
             /\ last'.refresh_token = NoToken
             /\ UNCHANGED <<temp_token_store, active_tokens>>]_vars
    /\ []((/\ last.op = "login"
           /\ InvalidCredentials(last.result)
           /\ last.call.temp_token \in DOMAIN temp_token_store
           /\ ~temp_token_store[last.call.temp_token].used)
          => \A clock \in Instants, c \in Credentials :
                (/\ now <= clock
                 /\ clock <= temp_token_store[last.call.temp_token].expires_at
                 /\ ValidCredentials(LoginCall(c[1], c[2], last.call.temp_token,
                                               last.call.client_ip)))
                => /\ verify_temp_token(temp_token_store, last.call.temp_token,
                                        last.call.client_ip, clock)
                   /\ Succeeded(authenticate_user(c[1], c[2])))

C15_Witness ==
    /\ last.op = "login"
    /\ InvalidCredentials(last.result)
    /\ last.call.username \notin DOMAIN Employee
    /\ UsableTemp(last.call.temp_token, last.call.client_ip)
    /\ \E clock \in Instants :
          now < clock /\ clock <= temp_token_store[last.call.temp_token].expires_at
    /\ active_tokens = <<>>

\* C16: a login whose temp token is unknown, expired, already used or issued
\* for another IP is rejected with InvalidTempToken whatever its credentials,
\* without starting the user lookup and with the temp token store and the
\* registry left as they were.
C16_InvalidTempTokenRejected ==
    [][(LoginStarts
          /\ ~UsableTemp(last'.call.temp_token, last'.call.client_ip))
       => /\ last'.op = "login"
          /\ InvalidTempToken(last'.result)
          /\ pending' = pending
          /\ UNCHANGED <<temp_token_store, active_tokens>>]_vars

C16_Witness ==
    /\ last.op = "login"
    /\ InvalidTempToken(last.result)
    /\ ValidCredentials(last.call)
    /\ last.call.temp_token \in DOMAIN temp_token_store
    /\ temp_token_store[last.call.temp_token].ip = last.call.client_ip
    /\ ~temp_token_store[last.call.temp_token].used
    /\ now > temp_token_store[last.call.temp_token].expires_at

Forbidden(r) == r.exc = "HTTPException" /\ r.status = 403

\* C17: role_checker returns the TokenData it was given, unchanged, exactly
\* when its role is the required role as a string (admin does not pass a
\* gate that requires hr), and otherwise fails with 403 Forbidden.
C17_ExactRoleMatch ==
    last.op = "role_checker"
    => /\ Succeeded(last.result) <=> last.current_user.role = last.required_role
       /\ Succeeded(last.result) => last.result.data = last.current_user
       /\ ~Succeeded(last.result) => Forbidden(last.result)

C17_Witness ==
    /\ last.op = "role_checker"
    /\ last.current_user.role = "admin"
    /\ last.required_role = "hr"
    /\ last.result = HTTPException(403, <<"Insufficient permissions">>)

\* C18: a request to a role-gated route whose authentication fails is
\* answered 401 whatever the required role, and a 403 answer is given only to
\* a request that authenticated with a role other than the required one.
C18_AuthenticateBeforeAuthorize ==
    last.op = "require_role"
    => /\ ~Succeeded(last.current_user) => last.result.status = 401
       /\ last.result.status = 403
             => /\ Succeeded(last.current_user)
                /\ last.current_user.data.role # last.required_role

\* C19: one run of the sweep deletes from the temp token store exactly the
\* records whose expires_at is before the clock and from the registry exactly
\* the entries whose exp is before the clock; every other entry of both
\* stores, used temp tokens included, is still there with the same value.
C19_SweepRemovesExactlyExpired ==
    [][(last.op = "idle" /\ last'.op = "cleanup_expired_tokens")
       => /\ DOMAIN temp_token_store' =
                {k \in DOMAIN temp_token_store : ~(temp_token_store[k].expires_at < now)}
          /\ \A k \in DOMAIN temp_token_store' :
                temp_token_store'[k] = temp_token_store[k]
          /\ DOMAIN active_tokens' =
                {k \in DOMAIN active_tokens : ~(active_tokens[k].exp < now)}
          /\ \A k \in DOMAIN active_tokens' :
                active_tokens'[k] = active_tokens[k]]_vars

C19_Witness ==
    /\ last.op = "cleanup_expired_tokens"
    /\ last.expired_temp # {}
    /\ last.expired_active # {}
    /\ last.expired_active \cap DOMAIN active_tokens = {}
    /\ \E k \in DOMAIN active_tokens : now <= active_tokens[k].exp

\* C20: revoke_token returns True exactly when the token was in the registry
\* just before the call; after the call the token is not in the registry and
\* every other entry is as it was; a revoke of a token that is not in the
\* registry, such as a second revoke, returns False and changes nothing.
C20_RevokeReportsPresence ==
    [][(last.op = "idle" /\ last'.op = "revoke_token")
       => /\ last'.result <=> last'.token \in DOMAIN active_tokens
          /\ last'.token \notin DOMAIN active_tokens'
          /\ active_tokens' = Remove(active_tokens, {last'.token})
          /\ ~last'.result => UNCHANGED <<active_tokens, temp_token_store>>]_vars

C20_Witness ==
    /\ last.op = "revoke_token"
    /\ ~last.result
    /\ last.token \in removed
    /\ ~Registered(last.token)

\* C21: verify_temp_token(token, client_ip) is true exactly when the token
\* has a record that is unexpired, unused and issued for client_ip; the step
\* of login that calls it leaves every record of the temp token store, used
\* flag included, as it was, however many logins have verified the token.
C21_VerifyTempTokenReadOnly ==
    /\ [](\A t \in TempIds \cup {UnknownTemp}, ip \in ClientIps :
            verify_temp_token(temp_token_store, t, ip, now) <=> UsableTemp(t, ip))
    /\ [][LoginStarts => UNCHANGED temp_token_store]_vars

C21_Witness ==
    /\ last.op = "login_suspended"
    /\ BagCardinality(pending) = 2
    /\ \A call \in BagToSet(pending) : call.temp_token = last.call.temp_token
    /\ UsableTemp(last.call.temp_token, last.call.client_ip)

\* C22: mark_temp_token_used on a token that has a record sets its used flag
\* and changes no other field and no other record; applied again to the same
\* token it leaves the store as the first application left it; on a token
\* without a record it changes nothing and creates no record.
C22_ConsumeIdempotentTotal ==
    [][last'.op = "mark_temp_token_used"
       => /\ DOMAIN temp_token_store' = DOMAIN temp_token_store
          /\ \A k \in DOMAIN temp_token_store :
                /\ temp_token_store'[k].expires_at = temp_token_store[k].expires_at
                /\ temp_token_store'[k].ip = temp_token_store[k].ip
                /\ temp_token_store'[k].used
                      <=> (temp_token_store[k].used \/ k = last'.token)
          /\ last'.token \notin DOMAIN temp_token_store
                => temp_token_store' = temp_token_store
          /\ (last.op = "mark_temp_token_used" /\ last.token = last'.token)
                => temp_token_store' = temp_token_store]_vars

C22_Witness ==
    /\ last.op = "mark_temp_token_used"
    /\ last.token \in DOMAIN temp_token_store
    /\ last.before = temp_token_store
    /\ temp_token_store[last.token].used
    /\ \E k \in DOMAIN temp_token_store : ~temp_token_store[k].used

\* the access token is rejected as expired, as presented from another IP, or
\* as revoked (absent from the registry)
RejectedAccess(token, client_ip) ==
    /\ IsAccess(token)
    /\ \/ ~Registered(token)
       \/ now > token.payload.exp
       \/ token.payload.ip # client_ip

\* the refresh cookie would pass the registry, expiry and IP checks
UsableRefresh(token, client_ip) ==
    /\ token # NoToken
    /\ IsRefresh(token)
    /\ Registered(token)
    /\ now <= token.payload.exp
    /\ token.payload.ip = client_ip

\* C23: two requests from the same address with the same unusable (or no)
\* refresh token, whose access tokens are rejected for being expired,
\* IP-mismatched or revoked, get the same status code and the same detail
\* from get_current_user.
C23_RejectionReasonNotLeaked ==
    \A a1 \in minted, a2 \in minted, client_ip \in ClientIps,
       refresh \in minted \cup {NoToken} :
       (/\ RejectedAccess(a1, client_ip)
        /\ RejectedAccess(a2, client_ip)
        /\ ~UsableRefresh(refresh, client_ip))
       => LET r1 == get_current_user(active_tokens, a1, refresh, client_ip, now).result
              r2 == get_current_user(active_tokens, a2, refresh, client_ip, now).result
          IN r1.status = r2.status /\ r1.detail = r2.detail

\* the four checks of validation, on the payload last validated
WrongType == last.payload.type # last.token_type

PastExp == now > last.payload.exp

OtherIp == last.payload.ip # last.client_ip

MissingClaims == ~({"sub", "role", "empid"} \subseteq DOMAIN last.payload)

\* C24: _validate_token_payload reports the earliest failing check in the
\* order wrong type, expired, IP mismatch, missing claims, whatever later
\* checks the payload also fails, and reports nothing when all four pass.
C24_ValidationPrecedence ==
    last.op = "_validate_token_payload"
    => /\ WrongType => last.result = "Invalid token type"
       /\ (~WrongType /\ PastExp) => last.result = "Token expired"
       /\ (~WrongType /\ ~PastExp /\ OtherIp) => last.result = "IP address changed"
       /\ (~WrongType /\ ~PastExp /\ ~OtherIp /\ MissingClaims)
             => last.result = "Missing required claims"
       /\ (~WrongType /\ ~PastExp /\ ~OtherIp /\ ~MissingClaims)
             => last.result = ""

C24_Witness ==
    /\ last.op = "_validate_token_payload"
    /\ ~WrongType
    /\ PastExp
    /\ OtherIp
    /\ MissingClaims
    /\ last.result = "Token expired"

\* C25: from any client IP, verify_access_token rejects a registered,
\* unexpired refresh token, and refresh_token rejects a registered, unexpired
\* access token, returns no access token and leaves the registry and the set
\* of minted tokens as they were.
C25_KindsNotInterchangeable ==
    /\ []((/\ last.op = "verify_access_token"
           /\ IsRefresh(last.token)
           /\ Registered(last.token)
           /\ now <= last.token.payload.exp)
          => ~Succeeded(last.result))
    /\ [][(/\ last.op = "idle"
           /\ last'.op = "refresh_token"
           /\ IsAccess(last'.token)
           /\ last'.token \in DOMAIN active_tokens
           /\ now <= last'.token.payload.exp)
          => /\ ~Succeeded(last'.result)
             /\ last'.access_token = NoToken
             /\ UNCHANGED <<active_tokens, minted>>]_vars

C25_Witness ==
    /\ last.op = "refresh_token"
    /\ IsAccess(last.token)
    /\ Registered(last.token)
    /\ now <= last.token.payload.exp
    /\ last.token.payload.ip = last.client_ip
    /\ last.result =
          HTTPException(401, <<"Invalid refresh token: ", "Signature verification failed.">>)

\* a record or an entry whose expiry has passed is still in its store
ExpiredPresent ==
    \/ \E k \in DOMAIN temp_token_store : temp_token_store[k].expires_at < now
    \/ \E k \in DOMAIN active_tokens : active_tokens[k].exp < now

\* C26: with the sweep task scheduled fairly, whenever a store holds entries
\* whose expiry has passed, a state follows in which none of them is left
\* (the clock does not go back, so each of them has been removed by then);
\* and whatever the stores hold, an iteration of the sweep can run whenever
\* the event loop is free: none of them ends the loop.
C26_ExpiredEventuallySwept ==
    /\ ExpiredPresent ~> ~ExpiredPresent
    /\ [](last.op = "idle" => ENABLED cleanup_expired_tokens)

C26_Witness ==
    /\ last.op = "cleanup_expired_tokens"
    /\ last.expired_temp # {}
    /\ \E k \in last.expired_active : IsRefresh(k)
    /\ ~ExpiredPresent

\* C27: an iteration of the sweep runs between two handler steps, never
\* inside one (it has no await between its collection and its deletions):
\* every key it deletes is in its store when the del runs, so that no del
\* raises, also when a revoke has removed expired entries just before; and
\* what it leaves is what the stores held before it, less the keys it
\* collected, with nothing else written.
C27_SweepSafeUnderInterleaving ==
    [][(last.op = "idle" /\ last'.op = "cleanup_expired_tokens")
       => /\ last'.expired_temp \subseteq DOMAIN temp_token_store
          /\ last'.expired_active \subseteq DOMAIN active_tokens
          /\ temp_token_store' = Remove(temp_token_store, last'.expired_temp)
          /\ active_tokens' = Remove(active_tokens, last'.expired_active)
          /\ UNCHANGED <<now, issued, pending, minted, successes>>]_vars

C27_Witness ==
    /\ last.op = "cleanup_expired_tokens"
    /\ now = ACCESS_TOKEN_EXPIRE_MINUTES + 1
    /\ last.expired_active # {}
    /\ \E k \in removed \ last.expired_active : k.payload.exp < now

\* C28: a login that fails, on its temp token or on its credentials, or that
\* is aborted at its user lookup, leaves the temp token store and the
\* registry as they were; a login that succeeds consumes the temp token (when
\* its record is still in the store) and registers its access token and its
\* refresh token in one step, so that no other step sees some of the three
\* without the others.
C28_LoginAllOrNothing ==
    /\ [][(/\ last.op = "idle"
           /\ \/ last'.op \in {"login_suspended", "login_aborted"}
              \/ last'.op = "login" /\ ~Succeeded(last'.result))
          => UNCHANGED <<temp_token_store, active_tokens>>]_vars
    /\ [][(last.op = "idle" /\ last'.op = "login" /\ Succeeded(last'.result))
          => /\ last'.call.temp_token \in DOMAIN temp_token_store'
                   => temp_token_store'[last'.call.temp_token].used
             /\ last'.access_token \in DOMAIN active_tokens'
             /\ last'.refresh_token \in DOMAIN active_tokens']_vars

C28_Witness ==
    /\ last.op = "login_aborted"
    /\ ValidCredentials(last.call)
    /\ UsableTemp(last.call.temp_token, last.call.client_ip)
    /\ active_tokens = <<>>

\* C29: the access token a login at time t returns has exp at most
\* t + refresh lifetime + access lifetime and its refresh token has exp
\* t + refresh lifetime; an access token minted by a refresh has exp at most
\* the exp of the refresh token it was minted from + access lifetime; and no
\* step that can refresh changes the registry entry of a refresh token.
C29_SessionNotExtended ==
    /\ []((last.op = "login" /\ Succeeded(last.result))
          => /\ last.access_token.payload.exp
                   <= now + refresh_token_expiry + ACCESS_TOKEN_EXPIRE_MINUTES
             /\ last.refresh_token.payload.exp = now + refresh_token_expiry)
    /\ []((last.op = "refresh_token" /\ last.access_token # NoToken)
          => /\ IsRefresh(last.token)
             /\ last.access_token.payload.exp
                   <= last.token.payload.exp + ACCESS_TOKEN_EXPIRE_MINUTES)
    /\ []((last.op = "get_current_user" /\ last.access_token # NoToken)
          => /\ IsRefresh(last.refresh)
             /\ last.access_token.payload.exp
                   <= last.refresh.payload.exp + ACCESS_TOKEN_EXPIRE_MINUTES)
    /\ [][(/\ last.op = "idle"
           /\ last'.op \in {"refresh_token", "get_current_user", "require_role"})
          => \A k \in DOMAIN active_tokens :
                IsRefresh(k) => /\ k \in DOMAIN active_tokens'
                                /\ active_tokens'[k] = active_tokens[k]]_vars

C29_Witness ==
    /\ last.op = "refresh_token"
    /\ IsRefresh(last.token)
    /\ Registered(last.token)
    /\ last.token.payload.ip = last.client_ip
    /\ now > last.token.payload.exp - refresh_token_expiry + ACCESS_TOKEN_EXPIRE_MINUTES
    /\ now <= last.token.payload.exp
    /\ active_tokens[last.token].exp = last.token.payload.exp

\* verify_temp_token rejects the record of k for its expiry: it is false from
\* the record's own IP even with the used flag cleared
TempRejectedAsExpired(k) ==
    ~verify_temp_token([temp_token_store EXCEPT ![k].used = FALSE], k,
                       temp_token_store[k].ip, now)

\* decoding and validation reject the session token k for its expiry
SessionRejectedAsExpired(k) ==
    \/ jwt_decode(k, k.key, now).msg = "Signature has expired."
    \/ _validate_token_payload(k.payload, k.payload.ip, k.payload.type, now)
          = "Token expired"

\* C30: a sweep deletes a temp token record exactly when verify_temp_token
\* rejects it as expired, and a registry entry exactly when decoding and
\* validation reject its token as expired, the recorded expiry being the one
\* of the token; at the instant of its expiry an entry is neither rejected
\* as expired nor deleted.
C30_SweepAgreesWithVerification ==
    /\ [][(last.op = "idle" /\ last'.op = "cleanup_expired_tokens")
          => /\ \A k \in DOMAIN temp_token_store :
                   k \notin DOMAIN temp_token_store' <=> TempRejectedAsExpired(k)
             /\ \A k \in DOMAIN active_tokens :
                   /\ active_tokens[k].exp = k.payload.exp
                   /\ k \notin DOMAIN active_tokens' <=> SessionRejectedAsExpired(k)]_vars
    /\ [](/\ \A k \in DOMAIN temp_token_store :
               temp_token_store[k].expires_at = now => ~TempRejectedAsExpired(k)
          /\ \A k \in DOMAIN active_tokens :
               active_tokens[k].exp = now => ~SessionRejectedAsExpired(k))

C30_Witness ==
    /\ last.op = "cleanup_expired_tokens"
    /\ last.expired_temp # {}
    /\ \E k \in DOMAIN temp_token_store :
          /\ temp_token_store[k].expires_at = now
          /\ ~temp_token_store[k].used
          /\ verify_temp_token(temp_token_store, k, temp_token_store[k].ip, now)
    /\ \E k \in DOMAIN active_tokens : IsRefresh(k)

\* C31: revoke_token(token) removes the registry entry of that token string
\* and nothing else: every other entry stays with its record, so the verdict
\* of verification on every other token is what it was, and the temp token
\* store is unchanged; the access token of a login outlives the revoke of
\* its refresh token and the refresh token the revoke of its access token.
C31_RevokeRemovesOnlyItsEntry ==
    [][(last.op = "idle" /\ last'.op = "revoke_token")
       => /\ DOMAIN active_tokens \ DOMAIN active_tokens' \subseteq {last'.token}
          /\ \A k \in DOMAIN active_tokens \ {last'.token} :
                /\ k \in DOMAIN active_tokens'
                /\ active_tokens'[k] = active_tokens[k]
          /\ \A k \in minted \ {last'.token}, ip \in ClientIps :
                /\ verify_access_token(active_tokens', k, ip, now)
                     = verify_access_token(active_tokens, k, ip, now)
                /\ verify_refresh_token(active_tokens', k, ip, now)
                     = verify_refresh_token(active_tokens, k, ip, now)
          /\ temp_token_store' = temp_token_store]_vars

C31_Witness ==
    /\ last.op = "revoke_token"
    /\ last.result
    /\ IsRefresh(last.token)
    /\ ~Registered(last.token)
    /\ temp_token_store # <<>>
    /\ \E k \in DOMAIN active_tokens :
          /\ IsAccess(k)
          /\ Identity(k) = Identity(last.token)
          /\ k.payload.ip = last.token.payload.ip

====
